---- MODULE Spec2Model ----
(***************************************************************************)
(* Model of the client-side search widget of the default theme             *)
(* (components/Search.ts): index loading, query execution, relevance       *)
(* boosting, result rendering, keyboard navigation and focus handling.     *)
(*                                                                         *)
(* Strings are sequences of UTF-16 code units, one string per unit, so that *)
(* trimming, lower-casing and substring search are computed, not assumed.  *)
(* A unit is written as its character when that is printable ASCII, as     *)
(* "\t", "\n", "\f" or "\r" for those controls, and as "U+" followed by    *)
(* its four hexadecimal digits otherwise ("U+0130" is the one unit of the  *)
(* capital I with a dot above).                                            *)
(* An optional value (x?: T, possibly undefined) is a set with at most one *)
(* element: {} is undefined, {v} is the value v.                           *)
(***************************************************************************)
EXTENDS Integers, Sequences, FiniteSets, TLC

(***************************************************************************)
(* Bounds of the model                                                     *)
(***************************************************************************)
\* number of rows of the large dataset (more rows than the default numResults)
NumBigRows == 11
\* longest text and longest search string given to boldMatches on its own
MaxTextLen == 3
MaxSearchLen == 2
\* most leading comment ranges of one declaration given to discoverComment
MaxComments == 2

(***************************************************************************)
(* Program constants                                                       *)
(***************************************************************************)
\* searchConfig.numResults ?? 10
DefaultNumResults == 10

(***************************************************************************)
(* Strings                                                                 *)
(***************************************************************************)
UpperLetters ==
    << "A","B","C","D","E","F","G","H","I","J","K","L","M",
       "N","O","P","Q","R","S","T","U","V","W","X","Y","Z" >>
LowerLetters ==
    << "a","b","c","d","e","f","g","h","i","j","k","l","m",
       "n","o","p","q","r","s","t","u","v","w","x","y","z" >>

\* the lower-case letter of every upper-case letter
LowerOfUpper ==
    [c \in {UpperLetters[i] : i \in DOMAIN UpperLetters} |->
        LowerLetters[CHOOSE i \in DOMAIN UpperLetters : UpperLetters[i] = c]]

\* the WhiteSpace and LineTerminator code units, which String.prototype.trim
\* removes
WhiteSpace ==
    { " ", "\t", "\n", "\f", "\r", "U+000B", "U+00A0", "U+1680",
      "U+2000", "U+2001", "U+2002", "U+2003", "U+2004", "U+2005", "U+2006",
      "U+2007", "U+2008", "U+2009", "U+200A", "U+2028", "U+2029", "U+202F",
      "U+205F", "U+3000", "U+FEFF" }

\* the ASCII code units of the model's strings: the printable ones but the
\* grave accent, the
\* controls TLA+ can write and U+000B
AsciiUnits ==
    { " ", "!", "\"", "#", "$", "%", "&", "'", "(", ")", "*", "+", ",", "-",
      ".", "/", "0", "1", "2", "3", "4", "5", "6", "7", "8", "9", ":", ";",
      "<", "=", ">", "?", "@", "[", "\\", "]", "^", "_", "{", "|", "}",
      "~", "\t", "\n", "\f", "\r", "U+000B" }
        \cup {UpperLetters[i] : i \in DOMAIN UpperLetters}
        \cup {LowerLetters[i] : i \in DOMAIN LowerLetters}

\* the lower case of the non-ASCII letters of the model's strings whose
\* lower case depends on nothing around them: A grave, O diaeresis, E acute,
\* Cyrillic A, the Kelvin sign (lower case k), capital sharp s, and I with
\* dot above (lower case the two units i, U+0307)
LowerOfNonAscii ==
    [c \in {"U+00C0", "U+00C9", "U+00D6", "U+0130", "U+0410", "U+1E9E", "U+212A"} |->
        CASE c = "U+00C0" -> <<"U+00E0">>
          [] c = "U+00C9" -> <<"U+00E9">>
          [] c = "U+00D6" -> <<"U+00F6">>
          [] c = "U+0130" -> <<"i", "U+0307">>
          [] c = "U+0410" -> <<"U+0430">>
          [] c = "U+1E9E" -> <<"U+00DF">>
          [] c = "U+212A" -> <<"k">>]

\* the code units toLowerCase leaves as they are: ASCII but A-Z, white
\* space, the lower-case letters of the table above, the dotless i and the
\* combining dot above
LowerCaseFixed ==
    (AsciiUnits \ DOMAIN LowerOfUpper) \cup WhiteSpace
        \cup {"U+00DF", "U+00E0", "U+00E9", "U+00F6", "U+0131", "U+0307", "U+0430"}

\* the code units the strings of the model are made of.  Lower-casing is
\* defined on these alone: the letters left out include the ones whose lower
\* case depends on their neighbours (capital sigma, the halves of a
\* surrogate pair).
CodeUnits == DOMAIN LowerOfUpper \cup DOMAIN LowerOfNonAscii \cup LowerCaseFixed

\* the code units below U+0100
Latin1Units ==
    AsciiUnits \cup {"U+00A0", "U+00C0", "U+00C9", "U+00D6", "U+00DF", "U+00E0",
                     "U+00E9", "U+00F6"}

\* String.prototype.toLowerCase on one code unit of CodeUnits: the units of
\* its lower case
LowerChar(c) ==
    CASE c \in DOMAIN LowerOfUpper -> <<LowerOfUpper[c]>>
      [] c \in DOMAIN LowerOfNonAscii -> LowerOfNonAscii[c]
      [] c \in LowerCaseFixed -> <<c>>

\* String.prototype.toLowerCase, on strings over CodeUnits
RECURSIVE ToLowerCase(_)
ToLowerCase(s) ==
    IF s = <<>> THEN <<>> ELSE LowerChar(Head(s)) \o ToLowerCase(Tail(s))

\* the locales of the runtime the model tells apart: Turkish (as Azeri)
\* and Lithuanian have their own lower case of I, every other locale is as
\* en-US
Locales == {"en-US", "tr-TR", "lt-LT"}

\* the Turkish lower case: I before the combining dot above becomes i and
\* the dot is dropped, any other I becomes the dotless i (U+0131), and
\* U+0130 becomes i
RECURSIVE TurkishLowerCase(_)
TurkishLowerCase(s) ==
    IF s = <<>> THEN <<>>
    ELSE IF Head(s) = "I" /\ Len(s) >= 2 /\ s[2] = "U+0307"
         THEN <<"i">> \o TurkishLowerCase(SubSeq(s, 3, Len(s)))
    ELSE IF Head(s) = "I" THEN <<"U+0131">> \o TurkishLowerCase(Tail(s))
    ELSE IF Head(s) = "U+0130" THEN <<"i">> \o TurkishLowerCase(Tail(s))
    ELSE LowerChar(Head(s)) \o TurkishLowerCase(Tail(s))

\* the Lithuanian lower case: I and J before a combining mark above (of
\* CodeUnits, the combining dot above) get a dot above of their own, which
\* the mark follows
RECURSIVE LithuanianLowerCase(_)
LithuanianLowerCase(s) ==
    IF s = <<>> THEN <<>>
    ELSE IF Head(s) \in {"I", "J"} /\ Len(s) >= 2 /\ s[2] = "U+0307"
         THEN LowerChar(Head(s)) \o <<"U+0307">> \o LithuanianLowerCase(Tail(s))
    ELSE LowerChar(Head(s)) \o LithuanianLowerCase(Tail(s))

\* how the runtime holds a string: one byte per code unit, or two.  A string
\* with a code unit from U+0100 on is held in two bytes; one without may be
\* held either way, depending on how it came about.
Representations == {"one-byte", "two-byte"}

RepresentationsOf(s) ==
    IF \E i \in DOMAIN s : s[i] \notin Latin1Units
    THEN {"two-byte"} ELSE Representations

\* String.prototype.toLocaleLowerCase of a string over CodeUnits that the
\* runtime holds in the given representation, under the locale of the
\* runtime.  The runtime lower-cases a one-byte string as toLowerCase does
\* whatever the locale; the lower case of the locale applies to the
\* two-byte strings.  A string that cannot be held in one byte per unit is
\* held in two whatever representation is given.
ToLocaleLowerCase(s, locale, representation) ==
    LET twoByte == representation \notin RepresentationsOf(s) \/ representation = "two-byte"
    IN CASE locale = "tr-TR" /\ twoByte -> TurkishLowerCase(s)
         [] locale = "lt-LT" /\ twoByte -> LithuanianLowerCase(s)
         [] OTHER -> ToLowerCase(s)

\* what a call of boldMatches depends on beside its arguments: the locale
\* of the runtime and how the runtime holds the text and the search string
Runtimes == [locale : Locales, text : Representations, search : Representations]

\* what a render depends on beside the rows, each of which says how its own
\* name and parent are held: the locale of the runtime and how the runtime
\* holds the search text
PageRuntimes == [locale : Locales, search : Representations]

\* white space as String.prototype.trim sees it
IsSpace(c) == c \in WhiteSpace

RECURSIVE TrimStart(_)
TrimStart(s) ==
    IF s # <<>> /\ IsSpace(Head(s)) THEN TrimStart(Tail(s)) ELSE s

RECURSIVE TrimEnd(_)
TrimEnd(s) ==
    IF s # <<>> /\ IsSpace(s[Len(s)]) THEN TrimEnd(SubSeq(s, 1, Len(s) - 1)) ELSE s

\* String.prototype.trim
Trim(s) == TrimEnd(TrimStart(s))

\* text.substring(from, to) with 0-based, end-exclusive indices: each index
\* is clamped to 0..text.length and the smaller one is the start
Substring(text, from, to) ==
    LET f == IF from < 0 THEN 0 ELSE IF from > Len(text) THEN Len(text) ELSE from
        t == IF to < 0 THEN 0 ELSE IF to > Len(text) THEN Len(text) ELSE to
    IN SubSeq(text, (IF f <= t THEN f ELSE t) + 1, IF f <= t THEN t ELSE f)

\* does search occur in text at the 0-based index i
MatchesAt(text, search, i) ==
    /\ i + Len(search) <= Len(text)
    /\ Substring(text, i, i + Len(search)) = search

\* String.prototype.indexOf(search, from): 0-based index of the first
\* occurrence at or after from, -1 when there is none
IndexOf(text, search, from) ==
    LET start == IF from < 0 THEN 0 ELSE IF from > Len(text) THEN Len(text) ELSE from
        hits == {i \in start..Len(text) : MatchesAt(text, search, i)}
    IN IF hits = {} THEN -1 ELSE CHOOSE i \in hits : \A j \in hits : i <= j

\* decimal digits of a natural number
Digit(d) ==
    CASE d = 0 -> "0" [] d = 1 -> "1" [] d = 2 -> "2" [] d = 3 -> "3"
      [] d = 4 -> "4" [] d = 5 -> "5" [] d = 6 -> "6" [] d = 7 -> "7"
      [] d = 8 -> "8" [] d = 9 -> "9"

\* Number.prototype.toString() of a natural number
RECURSIVE NumberToString(_)
NumberToString(n) ==
    IF n < 10 THEN <<Digit(n)>> ELSE Append(NumberToString(n \div 10), Digit(n % 10))

Min(a, b) == IF a <= b THEN a ELSE b

(***************************************************************************)
(* The ReflectionKind enum, as the kind boost sees it                      *)
(***************************************************************************)
\* members of the numeric enum ReflectionKind in ascending value order:
\* Module = 0x2, Enum = 0x8, Class = 0x80
ReflectionKindMembers ==
    << [value |-> 2,   name |-> <<"M","o","d","u","l","e">>],
       [value |-> 8,   name |-> <<"E","n","u","m">>],
       [value |-> 128, name |-> <<"C","l","a","s","s">>] >>

\* Object.keys(ReflectionKind): the reverse-mapping (numeric) keys in
\* ascending order, then the member names in declaration order
ReflectionKindKeys ==
    [i \in 1..Len(ReflectionKindMembers) |-> NumberToString(ReflectionKindMembers[i].value)]
    \o [i \in 1..Len(ReflectionKindMembers) |-> ReflectionKindMembers[i].name]

\* ReflectionKind[key].toString(): a numeric key yields the member name, a
\* member name yields the digits of its value
ReflectionKindToString(key) ==
    LET m == CHOOSE x \in DOMAIN ReflectionKindMembers :
                 \/ NumberToString(ReflectionKindMembers[x].value) = key
                 \/ ReflectionKindMembers[x].name = key
    IN IF ReflectionKindMembers[m].name = key
       THEN NumberToString(ReflectionKindMembers[m].value)
       ELSE ReflectionKindMembers[m].name

IsDigit(c) == c \in {"0","1","2","3","4","5","6","7","8","9"}

DigitValue(c) == CHOOSE d \in 0..9 : Digit(d) = c

RECURSIVE DigitsValue(_, _)
DigitsValue(s, acc) ==
    IF s = <<>> \/ ~IsDigit(Head(s)) THEN acc
    ELSE DigitsValue(Tail(s), 10 * acc + DigitValue(Head(s)))

\* parseInt(s, 10) of a string without sign or leading blanks: the value of
\* the leading digits, NaN ({}) when the string starts with no digit
ParseInt(s) ==
    IF s = <<>> \/ ~IsDigit(Head(s)) THEN {} ELSE {DigitsValue(s, 0)}

\* Array.prototype.find over a sequence: the first element satisfying the
\* test, undefined ({}) when there is none
FindKindKey(kindName) ==
    LET hits == {i \in DOMAIN ReflectionKindKeys :
                    ToLowerCase(ReflectionKindToString(ReflectionKindKeys[i]))
                        = ToLowerCase(kindName)}
    IN IF hits = {} THEN {}
       ELSE {ReflectionKindKeys[CHOOSE i \in hits : \A j \in hits : i <= j]}

\* parseInt(Object.keys(ReflectionKind).find(...) ?? "", 10)
KindOfName(kindName) ==
    LET found == FindKindKey(kindName)
    IN ParseInt(IF found = {} THEN <<>> ELSE CHOOSE k \in found : TRUE)

(***************************************************************************)
(* Datasets that the search script may put into window.searchData          *)
(***************************************************************************)
NoConfig == [numResults |-> {}, boosts |-> {}]

\* the strings of a row as JSON.parse leaves them: one byte per code unit
HeldOneByte == [name |-> "one-byte", parent |-> "one-byte"]

\* the field held of a row says how the runtime holds its name and its
\* parent, two strings of their own
SmallRows ==
    << [id |-> 0, kind |-> 128, name |-> <<"A","b">>, url |-> <<"r","0">>,
        classes |-> {}, parent |-> {}, categories |-> <<"Core">>,
        held |-> HeldOneByte],
       [id |-> 1, kind |-> 8, name |-> <<"a">>, url |-> <<"r","1">>,
        classes |-> {"tsd-is-private"}, parent |-> {<<"A","'","\"">>},
        categories |-> <<>>, held |-> HeldOneByte],
       [id |-> 2, kind |-> 128, name |-> <<"<","a",">","&">>, url |-> <<"r","2">>,
        classes |-> {}, parent |-> {}, categories |-> <<"Core","Util">>,
        held |-> HeldOneByte] >>

\* the small rows, two of them with the token "current" in their classes
MarkedRows ==
    [SmallRows EXCEPT ![1].classes = {"current"},
                      ![3].classes = {"current", "tsd-is-private"}]

BigRows ==
    [i \in 1..NumBigRows |->
        [id |-> i - 1, kind |-> 2, name |-> <<"a">>, url |-> <<"m">>,
         classes |-> {}, parent |-> {}, categories |-> <<>>,
         held |-> HeldOneByte]]

\* the serialized index is abstracted to the relevance weight of each row
SmallIndex == <<2, 3, 1>>
BigIndex == [i \in 1..NumBigRows |-> NumBigRows + 1 - i]

AllBoosts ==
    [numResults |-> {2},
     boosts |-> {[exactMatch |-> {3},
                  byKind |-> << [key |-> <<"c","l","a","s","s">>, value |-> 3],
                                [key |-> <<"E","N","U","M">>, value |-> 2],
                                [key |-> <<"1","2","8">>, value |-> 5],
                                [key |-> <<"b","o","g","u","s">>, value |-> 7] >>,
                  byCategory |-> << [key |-> "Util", value |-> 5],
                                    [key |-> "Misc", value |-> 7] >>]}]

\* an exactMatch multiplier of 0 next to two kind keys that name one kind
ZeroExactMatch ==
    [numResults |-> {},
     boosts |-> {[exactMatch |-> {0},
                  byKind |-> << [key |-> <<"C","l","a","s","s">>, value |-> 2],
                                [key |-> <<"c","l","a","s","s">>, value |-> 3] >>,
                  byCategory |-> <<>>]}]

Datasets ==
    << [rows |-> SmallRows, index |-> SmallIndex, searchConfig |-> AllBoosts],
       [rows |-> SmallRows, index |-> SmallIndex, searchConfig |-> ZeroExactMatch],
       [rows |-> BigRows, index |-> BigIndex, searchConfig |-> NoConfig],
       [rows |-> MarkedRows, index |-> SmallIndex, searchConfig |-> NoConfig] >>

\* 0 stands for undefined (window.searchData / state.data not set)
DatasetIds == DOMAIN Datasets

\* values typed into the search field
Queries ==
    { <<>>, <<" ">>, <<"\t","A"," ">>, <<"A","B">> }

\* refs of the rows whose <li> the page's visibility filters may hide
HideableRefs == {0, 1}

\* the data-base attribute of #tsd-search
BaseAttr == <<".">>

\* the runtime the page is shown in.  The rows and the queries above hold no
\* I, no J and no U+0130, the code units whose lower case depends on the
\* locale, so that every runtime renders them alike however it holds each
\* string; boldMatches on its own is run in every runtime.
PageRuntime == [locale |-> "en-US", search |-> "one-byte"]

(***************************************************************************)
(* Highlighting and escaping                                               *)
(***************************************************************************)
SpecialHtml_NoAmpersand(c) ==
    CASE c = "<"  -> <<"&","l","t",";">>
      [] c = ">"  -> <<"&","g","t",";">>
      [] c = "'"  -> <<"&","#","0","3","9",";">>
      [] c = "\"" -> <<"&","q","u","o","t",";">>
      [] OTHER    -> <<c>>

\* SPECIAL_HTML: the entity of a character, the character itself when it
\* has none
SpecialHtml(c) ==
    CASE c = "&"  -> <<"&","a","m","p",";">>
      [] c = "<"  -> <<"&","l","t",";">>
      [] c = ">"  -> <<"&","g","t",";">>
      [] c = "'"  -> <<"&","#","0","3","9",";">>
      [] c = "\"" -> <<"&","q","u","o","t",";">>
      [] OTHER    -> <<c>>

\* escapeHtml(text): text.replace(/[&<>"'"]/g, match => SPECIAL_HTML[match])
RECURSIVE EscapeHtml(_)
EscapeHtml(text) ==
    IF text = <<>> THEN <<>> ELSE SpecialHtml(Head(text)) \o EscapeHtml(Tail(text))

BoldOpen == <<"<","b",">">>
BoldClose == <<"<","/","b",">">>

\* the while loop of boldMatches and the final parts.push / parts.join("")
RECURSIVE BoldLoop(_, _, _, _, _, _)
BoldLoop(text, lowerText, lowerSearch, lastIndex, index, parts) ==
    IF index = -1
    THEN parts \o EscapeHtml(Substring(text, lastIndex, Len(text)))
    ELSE BoldLoop(text, lowerText, lowerSearch,
                  index + Len(lowerSearch),
                  IndexOf(lowerText, lowerSearch, index + Len(lowerSearch)),
                  parts \o EscapeHtml(Substring(text, lastIndex, index))
                        \o BoldOpen
                        \o EscapeHtml(Substring(text, index, index + Len(lowerSearch)))
                        \o BoldClose)

\* boldMatches(text, search), in the given runtime
BoldMatches(text, search, runtime) ==
    IF search = <<>> THEN text
    ELSE LET lowerText == ToLocaleLowerCase(text, runtime.locale, runtime.text)
             lowerSearch == ToLocaleLowerCase(search, runtime.locale, runtime.search)
         IN BoldLoop(text, lowerText, lowerSearch, 0,
                     IndexOf(lowerText, lowerSearch, 0), <<>>)

SpanOpen ==
    <<"<","s","p","a","n"," ","c","l","a","s","s","=","\"","p","a","r","e","n","t","\"",">">>
SpanClose == <<"<","/","s","p","a","n",">">>

\* the markup assigned to anchor.innerHTML for one row: boldMatches runs on
\* the name and on the parent, each lower-cased as the runtime holds that
\* one string
NameHtml(row, searchText, runtime) ==
    LET for(representation) ==
            [locale |-> runtime.locale, text |-> representation,
             search |-> runtime.search]
        name == BoldMatches(row.name, searchText, for(row.held.name))
        parent == IF row.parent = {} THEN <<>> ELSE CHOOSE x \in row.parent : TRUE
    IN IF parent # <<>>
       THEN SpanOpen \o BoldMatches(parent, searchText, for(row.held.parent))
                    \o <<".">> \o SpanClose \o name
       ELSE name

(***************************************************************************)
(* The query engine                                                        *)
(***************************************************************************)
\* Array.prototype.sort((a, b) => b.score - a.score): a stable sort into
\* non-increasing score order, as an insertion sort
RECURSIVE InsertByScore(_, _)
InsertByScore(sorted, item) ==
    IF sorted = <<>> THEN <<item>>
    ELSE IF Head(sorted).score >= item.score
         THEN <<Head(sorted)>> \o InsertByScore(Tail(sorted), item)
         ELSE <<item>> \o sorted

RECURSIVE SortByScore(_)
SortByScore(res) ==
    IF res = <<>> THEN <<>>
    ELSE InsertByScore(SortByScore(SubSeq(res, 1, Len(res) - 1)), res[Len(res)])

\* rows in table order whose name contains the text, case-insensitively
RECURSIVE MatchingRows(_, _, _)
MatchingRows(data, searchText, i) ==
    IF i > Len(data.rows) THEN <<>>
    ELSE (IF IndexOf(ToLowerCase(data.rows[i].name), ToLowerCase(searchText), 0) # -1
          THEN << [ref |-> i - 1, score |-> data.index[i]] >>
          ELSE <<>>)
         \o MatchingRows(data, searchText, i + 1)

\* state.index.search(`*${searchText}*`): the wildcard matches with their
\* base relevance score, most relevant first
IndexSearch(data, searchText) == SortByScore(MatchingRows(data, searchText, 1))

\* the loop "for (let kindName in searchConfig.boosts.byKind ?? {})"
RECURSIVE BoostByKind(_, _, _)
BoostByKind(byKind, row, boost) ==
    IF byKind = <<>> THEN boost
    ELSE BoostByKind(Tail(byKind), row,
                     IF row.kind \in KindOfName(Head(byKind).key)
                     THEN boost * Head(byKind).value
                     ELSE boost)

\* row.categories.indexOf(categoryTitle) > -1
HasCategory(row, categoryTitle) ==
    \E i \in DOMAIN row.categories : row.categories[i] = categoryTitle

\* the loop "for (let categoryTitle in searchConfig.boosts?.byCategory ?? [])"
RECURSIVE BoostByCategory(_, _, _)
BoostByCategory(byCategory, row, boost) ==
    IF byCategory = <<>> THEN boost
    ELSE BoostByCategory(Tail(byCategory), row,
                         IF HasCategory(row, Head(byCategory).key)
                         THEN boost * Head(byCategory).value
                         ELSE boost)

\* the exact-match step: searchConfig.boosts.exactMatch must be truthy
BoostByExactMatch(exactMatch, row, searchText, boost) ==
    IF /\ exactMatch # {}
       /\ exactMatch # {0}
       /\ ToLowerCase(row.name) = ToLowerCase(searchText)
    THEN boost * (CHOOSE m \in exactMatch : TRUE)
    ELSE boost

\* the boost of one match: the body of the loop over res
BoostOf(boosts, row, searchText) ==
    BoostByCategory(boosts.byCategory, row,
        BoostByKind(boosts.byKind, row,
            BoostByExactMatch(boosts.exactMatch, row, searchText, 1)))

\* item.score *= boost for every item of res
ApplyBoosts(boosts, data, res, searchText) ==
    [i \in 1..Len(res) |->
        [ref |-> res[i].ref,
         score |-> res[i].score * BoostOf(boosts, data.rows[res[i].ref + 1], searchText)]]

\* mutation of SearchResults: the wildcard search runs for an empty text too
SearchResults_NoEmptyGuard(searchConfig, data, searchText) ==
    LET res == IndexSearch(data, searchText)
    IN IF searchConfig.boosts # {}
       THEN SortByScore(ApplyBoosts(CHOOSE b \in searchConfig.boosts : TRUE,
                                    data, res, searchText))
       ELSE res

\* mutation of SearchResults: the boosted matches are not sorted again
SearchResults_NoSort(searchConfig, data, searchText) ==
    LET res == IF searchText # <<>> THEN IndexSearch(data, searchText) ELSE <<>>
    IN IF searchConfig.boosts # {}
       THEN ApplyBoosts(CHOOSE b \in searchConfig.boosts : TRUE, data, res, searchText)
       ELSE res

\* res as updateResults has it when the render loop starts
SearchResults(searchConfig, data, searchText) ==
    LET res == IF searchText # <<>> THEN IndexSearch(data, searchText) ELSE <<>>
    IN IF searchConfig.boosts # {}
       THEN SortByScore(ApplyBoosts(CHOOSE b \in searchConfig.boosts : TRUE,
                                    data, res, searchText))
       ELSE res

\* mutation of RenderCount: every match is rendered
RenderCount_NoLimit(searchConfig, res) == Len(res)

\* Math.min(searchConfig.numResults ?? 10, res.length)
RenderCount(searchConfig, res) ==
    Min(IF searchConfig.numResults = {} THEN DefaultNumResults
        ELSE CHOOSE n \in searchConfig.numResults : TRUE,
        Len(res))

\* the <li> built for one result: its class list is the row's classes, the
\* token "current" among them if the row has it
RenderItem(base, row, ref, searchText, runtime) ==
    [ref |-> ref,
     classes |-> row.classes,
     href |-> base \o row.url,
     html |-> NameHtml(row, searchText, runtime)]

\* the render loop: one <li> per result, appended in order
RenderResults(searchConfig, data, base, res, searchText, runtime) ==
    [i \in 1..RenderCount(searchConfig, res) |->
        RenderItem(base, data.rows[res[i].ref + 1], res[i].ref, searchText, runtime)]

(***************************************************************************)
(* Keyboard navigation over the rendered list                              *)
(***************************************************************************)
\* results.querySelector(".current"): the position of the first <li> marked
\* current, 0 when there is none
CurrentIndex(items) ==
    LET marked == {i \in DOMAIN items : "current" \in items[i].classes}
    IN IF marked = {} THEN 0 ELSE CHOOSE i \in marked : \A j \in marked : i <= j

\* rel.offsetParent == null: the element is not laid out
IsHidden(item, hiddenRefs) == item.ref \in hiddenRefs

\* mutation of WalkSiblings: the walk stops at the adjacent sibling, laid
\* out or not
WalkSiblings_NoSkip(items, i, dir, hiddenRefs) ==
    LET j == IF dir = 1 THEN i + 1 ELSE i - 1
    IN IF j < 1 \/ j > Len(items) THEN 0 ELSE j

\* the do-while loops over nextElementSibling / previousElementSibling: the
\* position the walk stops at, 0 when the siblings are exhausted
RECURSIVE WalkSiblings(_, _, _, _)
WalkSiblings(items, i, dir, hiddenRefs) ==
    LET j == IF dir = 1 THEN i + 1 ELSE i - 1
    IN IF j < 1 \/ j > Len(items) THEN 0
       ELSE IF IsHidden(items[j], hiddenRefs)
            THEN WalkSiblings(items, j, dir, hiddenRefs)
            ELSE j

\* classList.add("current") / classList.remove("current") on one <li>
MarkCurrent(items, i, flag) ==
    [items EXCEPT ![i].classes = IF flag THEN @ \cup {"current"} ELSE @ \ {"current"}]

\* mutation of SetCurrentResult: with none current, next picks the last
\* element and previous the first
SetCurrentResult_SwappedEnds(items, dir, hiddenRefs) ==
    LET current == CurrentIndex(items)
    IN IF current = 0
       THEN LET first == IF items = <<>> THEN 0
                         ELSE IF dir = 1 THEN Len(items) ELSE 1
            IN IF first # 0 THEN MarkCurrent(items, first, TRUE) ELSE items
       ELSE LET rel == WalkSiblings(items, current, dir, hiddenRefs)
            IN IF rel # 0
               THEN MarkCurrent(MarkCurrent(items, current, FALSE), rel, TRUE)
               ELSE items

\* the result list after setCurrentResult(results, dir)
SetCurrentResult(items, dir, hiddenRefs) ==
    LET current == CurrentIndex(items)
    IN IF current = 0
       THEN LET first == IF items = <<>> THEN 0
                         ELSE IF dir = 1 THEN 1 ELSE Len(items)
            IN IF first # 0 THEN MarkCurrent(items, first, TRUE) ELSE items
       ELSE LET rel == WalkSiblings(items, current, dir, hiddenRefs)
            IN IF rel # 0
               THEN MarkCurrent(MarkCurrent(items, current, FALSE), rel, TRUE)
               ELSE items

\* mutation of GotoTarget: no fallback to the first element
GotoTarget_CurrentOnly(items) == CurrentIndex(items)

GotoTarget_AlwaysFirst(items) == IF items # <<>> THEN 1 ELSE 0

\* the element gotoCurrentResult acts on: the current one, else the first
\* <li>, 0 when the list is empty
GotoTarget(items) ==
    LET current == CurrentIndex(items)
    IN IF current # 0 THEN current
       ELSE IF items # <<>> THEN 1 ELSE 0

\* the blur listener of the field
BlurListener(classList, clicked) ==
    IF ~clicked THEN classList \ {"has-focus"} ELSE classList

(***************************************************************************)
(* State                                                                   *)
(***************************************************************************)
VARIABLES
    dom,            \* which elements the page has: searchEl, script, field, results
    hidden,         \* refs of the rows whose <li> the page's filters hide
    phase,          \* "start", "absent", "threw", "bound"
    scriptState,    \* the search script: "pending", "loaded", "failed"
    scriptListeners,\* initSearch has put its listeners on the script element
    searchData,     \* window.searchData: a dataset id, 0 when undefined
    searchConfig,   \* the searchConfig bound by initSearch: the id of the
                    \* dataset it was read from, 0 for the {} default
    state,          \* SearchState: base, data and index (dataset ids, 0 undefined)
    classList,      \* searchEl.classList
    resultClicked,  \* the closure variable of initSearch
    value,          \* field.value
    focused,        \* the field has input focus
    mouseDown,      \* a mouse button pressed on the result list is still held
    pending,        \* the debounce timer is armed
    results,        \* the <li> children of the results element
    location,       \* window.location.href once assigned, {} before
    cycle,          \* the last run of updateResults: its field value, the slot
                    \* it saw, its searchText and res
    last,           \* the last keyboard operation on the list
    bold,           \* one call of boldMatches: its arguments and its result
    discover        \* one call of discoverComment: its arguments and its result

vars == << dom, hidden, phase, scriptState, scriptListeners, searchData,
           searchConfig, state, classList, resultClicked, value, focused,
           mouseDown, pending, results, location, cycle, last, bold, discover >>

\* the calls of the pure functions, which the widget's handlers leave alone
calls == << bold, discover >>

NoCall == [pc |-> "idle"]

\* the searchConfig object bound by initSearch
ConfigOf(id) == IF id = 0 THEN NoConfig ELSE Datasets[id].searchConfig

Doms ==
    {d \in [searchEl : BOOLEAN, script : BOOLEAN, field : BOOLEAN, results : BOOLEAN] :
        (d.field \/ d.results) => d.searchEl}

NoCycle ==
    [ran |-> "none", value |-> <<>>, slot |-> 0, searchText |-> <<>>, res |-> <<>>]
NoOp == [op |-> "none", dir |-> 0, from |-> 0]

Init ==
    /\ dom \in Doms
    /\ hidden \in SUBSET HideableRefs
    /\ phase = "start"
    /\ scriptState = "pending"
    /\ scriptListeners = FALSE
    /\ searchData = 0
    /\ searchConfig = 0
    /\ state = [base |-> <<>>, data |-> 0, index |-> 0]
    /\ classList = {}
    /\ resultClicked = FALSE
    /\ value = <<>>
    /\ focused = FALSE
    /\ mouseDown = FALSE
    /\ pending = FALSE
    /\ results = <<>>
    /\ location = {}
    /\ cycle = NoCycle
    /\ last = NoOp
    /\ bold = NoCall
    /\ discover = NoCall

(***************************************************************************)
(* Operations                                                              *)
(***************************************************************************)
\* initSearch(): returns when #tsd-search is missing, throws when the field
\* or the result list is missing, binds the handlers otherwise
InitSearch_NoThrow ==
    /\ phase = "start"
    /\ IF ~dom.searchEl
       THEN /\ phase' = "absent"
            /\ UNCHANGED << classList, scriptListeners, state, searchConfig >>
       ELSE /\ classList' =
                 IF dom.script /\ searchData # 0
                 THEN classList \ {"loading"}
                 ELSE classList \cup {"loading"}
            /\ scriptListeners' = dom.script
            /\ phase' = "bound"
            /\ state' = [base |-> BaseAttr \o <<"/">>, data |-> 0, index |-> 0]
            /\ searchConfig' = searchData
    /\ resultClicked' = FALSE
    /\ UNCHANGED << calls, dom, hidden, scriptState, searchData, value, focused,
                    mouseDown, pending, results, location, cycle, last >>

InitSearch ==
    /\ phase = "start"
    /\ IF ~dom.searchEl
       THEN /\ phase' = "absent"
            /\ UNCHANGED << classList, scriptListeners, state, searchConfig >>
       ELSE /\ classList' =
                 IF dom.script /\ searchData # 0
                 THEN classList \ {"loading"}
                 ELSE classList \cup {"loading"}
            /\ scriptListeners' = dom.script
            /\ IF ~dom.field \/ ~dom.results
               THEN /\ phase' = "threw"
                    /\ UNCHANGED << state, searchConfig >>
               ELSE /\ phase' = "bound"
                    /\ state' = [base |-> BaseAttr \o <<"/">>, data |-> 0, index |-> 0]
                    /\ searchConfig' = searchData
    /\ resultClicked' = FALSE
    /\ UNCHANGED << calls, dom, hidden, scriptState, searchData, value, focused,
                    mouseDown, pending, results, location, cycle, last >>

\* the search script runs and assigns window.searchData; its load event
\* reaches the listener of initSearch when that is attached
ScriptLoad(d) ==
    /\ phase \in {"start", "threw", "bound"}
    /\ scriptState = "pending"
    /\ scriptState' = "loaded"
    /\ searchData' = d
    /\ classList' = IF scriptListeners
                    THEN (classList \ {"loading"}) \cup {"ready"}
                    ELSE classList
    /\ UNCHANGED << calls, dom, hidden, phase, scriptListeners, searchConfig, state,
                    resultClicked, value, focused, mouseDown, pending, results,
                    location, cycle, last >>

\* the search script fails to load: the error listener of initSearch
ScriptError ==
    /\ phase \in {"start", "threw", "bound"}
    /\ dom.script
    /\ scriptState = "pending"
    /\ scriptState' = "failed"
    /\ classList' = IF scriptListeners
                    THEN (classList \ {"loading"}) \cup {"failure"}
                    ELSE classList
    /\ UNCHANGED << calls, dom, hidden, phase, scriptListeners, searchData, searchConfig,
                    state, resultClicked, value, focused, mouseDown, pending,
                    results, location, cycle, last >>

CheckIndex_ReadyAlways(st, cl) ==
    IF st.index # 0 THEN [state |-> st, classList |-> cl]
    ELSE [state |-> IF searchData # 0
                    THEN [st EXCEPT !.data = searchData, !.index = searchData]
                    ELSE st,
          classList |-> (cl \ {"loading"}) \cup {"ready"}]

CheckIndex_NoClassUpdate(st, cl) ==
    IF st.index # 0 THEN [state |-> st, classList |-> cl]
    ELSE IF searchData # 0
         THEN [state |-> [st EXCEPT !.data = searchData, !.index = searchData],
               classList |-> cl]
         ELSE [state |-> st, classList |-> cl]

CheckIndex_Reload(st, cl) ==
    IF searchData # 0
    THEN [state |-> [st EXCEPT !.data = searchData, !.index = searchData],
          classList |-> (cl \ {"loading"}) \cup {"ready"}]
    ELSE [state |-> st, classList |-> cl]

\* checkIndex(state, searchEl): the state and the class list it leaves
CheckIndex(st, cl) ==
    IF st.index # 0 THEN [state |-> st, classList |-> cl]
    ELSE IF searchData # 0
         THEN [state |-> [st EXCEPT !.data = searchData, !.index = searchData],
               classList |-> (cl \ {"loading"}) \cup {"ready"}]
         ELSE [state |-> st, classList |-> cl]

\* updateResults(searchEl, results, field, state, searchConfig)
UpdateResults ==
    LET checked == CheckIndex(state, classList)
        st == checked.state
    IN /\ state' = st
       /\ classList' = checked.classList
       /\ IF st.index = 0 \/ st.data = 0
          THEN /\ results' = results
               /\ cycle' = [ran |-> "skipped", value |-> value, slot |-> searchData,
                            searchText |-> <<>>, res |-> <<>>]
               /\ last' = last
          ELSE LET searchText == Trim(value)
                   config == ConfigOf(searchConfig)
                   res == SearchResults(config, Datasets[st.data], searchText)
               IN /\ results' = RenderResults(config, Datasets[st.data], st.base,
                                              res, searchText, PageRuntime)
                  /\ cycle' = [ran |-> "rendered", value |-> value, slot |-> searchData,
                               searchText |-> searchText, res |-> res]
                  /\ last' = [op |-> "cycle", dir |-> 0, from |-> 0]

\* the input listener: (re)arms the debounce timer
Input(q) ==
    /\ phase = "bound"
    /\ focused
    /\ q # value
    /\ value' = q
    /\ pending' = TRUE
    /\ UNCHANGED << calls, dom, hidden, phase, scriptState, scriptListeners, searchData,
                    searchConfig, state, classList, resultClicked, focused,
                    mouseDown, results, location, cycle, last >>

\* the debounce timer fires: one query+render cycle
DebounceFire ==
    /\ phase = "bound"
    /\ pending
    /\ pending' = FALSE
    /\ UpdateResults
    /\ UNCHANGED << calls, dom, hidden, phase, scriptState, scriptListeners, searchData,
                    searchConfig, resultClicked, value, focused, mouseDown,
                    location >>

\* keydown ArrowUp (dir = -1) or ArrowDown (dir = 1)
KeyArrow(dir) ==
    /\ phase = "bound"
    /\ focused
    /\ results' = SetCurrentResult(results, dir, hidden)
    /\ last' = [op |-> "move", dir |-> dir, from |-> CurrentIndex(results)]
    /\ UNCHANGED << calls, dom, hidden, phase, scriptState, scriptListeners, searchData,
                    searchConfig, state, classList, resultClicked, value, focused,
                    mouseDown, pending, location, cycle >>

\* keydown Enter: gotoCurrentResult(results, field)
KeyEnter ==
    /\ phase = "bound"
    /\ focused
    /\ LET current == GotoTarget(results)
       IN IF current # 0
          THEN /\ location' = {results[current].href}
               /\ focused' = FALSE
               /\ classList' = BlurListener(classList, resultClicked)
          ELSE UNCHANGED << location, focused, classList >>
    /\ last' = [op |-> "activate", dir |-> 0, from |-> CurrentIndex(results)]
    /\ UNCHANGED << calls, dom, hidden, phase, scriptState, scriptListeners,
                    searchData, searchConfig, state, resultClicked, value,
                    mouseDown, pending, results, cycle >>

\* the field loses focus: keydown Escape (field.blur()) or the user leaving it
Blur ==
    /\ phase = "bound"
    /\ focused
    /\ focused' = FALSE
    /\ classList' = BlurListener(classList, resultClicked)
    /\ UNCHANGED << calls, dom, hidden, phase, scriptState, scriptListeners, searchData,
                    searchConfig, state, resultClicked, value, mouseDown, pending,
                    results, location, cycle, last >>

\* the field gains focus: a click, the tab key or the "/" shortcut
Focus ==
    /\ phase = "bound"
    /\ ~focused
    /\ focused' = TRUE
    /\ classList' = classList \cup {"has-focus"}
    /\ UNCHANGED << calls, dom, hidden, phase, scriptState, scriptListeners, searchData,
                    searchConfig, state, resultClicked, value, mouseDown, pending,
                    results, location, cycle, last >>

\* mousedown on the result list
MouseDownResults ==
    /\ phase = "bound"
    /\ ~mouseDown
    /\ mouseDown' = TRUE
    /\ resultClicked' = TRUE
    /\ UNCHANGED << calls, dom, hidden, phase, scriptState, scriptListeners, searchData,
                    searchConfig, state, classList, value, focused, pending,
                    results, location, cycle, last >>

\* mouseup on the result list, of a button pressed on the list or elsewhere
MouseUpResults ==
    /\ phase = "bound"
    /\ mouseDown' = FALSE
    /\ resultClicked' = FALSE
    /\ classList' = classList \ {"has-focus"}
    /\ UNCHANGED << calls, dom, hidden, phase, scriptState, scriptListeners, searchData,
                    searchConfig, state, value, focused, pending, results,
                    location, cycle, last >>

\* the button pressed on the result list is released outside it: no listener
MouseUpElsewhere ==
    /\ phase = "bound"
    /\ mouseDown
    /\ mouseDown' = FALSE
    /\ UNCHANGED << calls, dom, hidden, phase, scriptState, scriptListeners, searchData,
                    searchConfig, state, classList, resultClicked, value, focused,
                    pending, results, location, cycle, last >>

Next ==
    \/ InitSearch
    \/ \E d \in DatasetIds : ScriptLoad(d)
    \/ ScriptError
    \/ \E q \in Queries : Input(q)
    \/ DebounceFire
    \/ \E dir \in {-1, 1} : KeyArrow(dir)
    \/ KeyEnter
    \/ Blur
    \/ Focus
    \/ MouseDownResults
    \/ MouseUpResults
    \/ MouseUpElsewhere

(***************************************************************************)
(* boldMatches on its own                                                  *)
(***************************************************************************)
\* the variables of the widget, which a call of a pure function leaves alone
widget == << dom, hidden, phase, scriptState, scriptListeners, searchData,
             searchConfig, state, classList, resultClicked, value, focused,
             mouseDown, pending, results, location, cycle, last >>

\* the page before initSearch has run
WidgetAtRest ==
    /\ dom = [searchEl |-> TRUE, script |-> TRUE, field |-> TRUE, results |-> TRUE]
    /\ hidden = {}
    /\ phase = "start"
    /\ scriptState = "pending"
    /\ scriptListeners = FALSE
    /\ searchData = 0
    /\ searchConfig = 0
    /\ state = [base |-> <<>>, data |-> 0, index |-> 0]
    /\ classList = {}
    /\ resultClicked = FALSE
    /\ value = <<>>
    /\ focused = FALSE
    /\ mouseDown = FALSE
    /\ pending = FALSE
    /\ results = <<>>
    /\ location = {}
    /\ cycle = NoCycle
    /\ last = NoOp

\* the strings over the characters of chars that are at most n long
StringsUpTo(chars, n) == UNION {[1..k -> chars] : k \in 0..n}

\* the code units of the arguments: two cases of a letter, two markup
\* characters, and the code units the Turkish lower case treats on its
\* own: I, the combining dot above, and I with dot above, whose lower case
\* elsewhere is two units long
BoldChars == {"a", "A", "I", "<", "&", "U+0130", "U+0307"}

InitBold ==
    /\ WidgetAtRest
    /\ discover = NoCall
    /\ bold \in [pc : {"called"},
                 runtime : Runtimes,
                 text : StringsUpTo(BoldChars, MaxTextLen),
                 search : StringsUpTo(BoldChars, MaxSearchLen),
                 out : {<<>>}]
    /\ bold.runtime.text \in RepresentationsOf(bold.text)
    /\ bold.runtime.search \in RepresentationsOf(bold.search)

\* the call returns
BoldMatchesReturn ==
    /\ bold.pc = "called"
    /\ bold' = [bold EXCEPT !.pc = "returned",
                            !.out = BoldMatches(bold.text, bold.search, bold.runtime)]
    /\ UNCHANGED << widget, discover >>

NextBold == BoldMatchesReturn

BoldSpec == InitBold /\ [][NextBold]_vars

(***************************************************************************)
(* discoverComment on its own                                              *)
(***************************************************************************)
\* wantedKinds, for the reflection kinds of the model
WantedKinds ==
    [Module    |-> {"SourceFile"},
     Namespace |-> {"ModuleDeclaration", "SourceFile", "BindingElement"},
     Function  |-> {"FunctionDeclaration", "BindingElement"}]

\* the kinds in the mask ReflectionKind.ContainsCallSignatures
ContainsCallSignatures == {"Constructor", "Function", "Method"}

\* a declaration: its syntax kind, whether a module declaration is the
\* topmost one, whether it has a body, and the leading comment ranges of its
\* comment node in file order, TRUE for a range that starts with "/**"
CommentRanges == UNION {[1..k -> BOOLEAN] : k \in 0..MaxComments}

Declarations ==
    {d \in [syntax : {"SourceFile", "ModuleDeclaration", "FunctionDeclaration"},
            topmost : BOOLEAN, body : BOOLEAN, comments : CommentRanges] :
        /\ (d.syntax # "ModuleDeclaration" => d.topmost)
        /\ (d.syntax # "FunctionDeclaration" => d.body)}

\* symbol.declarations: one declaration or two
DeclarationLists ==
    {<<d>> : d \in Declarations} \cup {<<d, e>> : d, e \in Declarations}

\* declarationToCommentNode(decl) finds a node
HasCommentNode(decl) == decl.syntax # "ModuleDeclaration" \/ decl.topmost

\* ts.getLeadingCommentRanges(text, node.pos): the ranges with their places
LeadingCommentRanges(decl) ==
    [i \in DOMAIN decl.comments |-> [pos |-> i, doc |-> decl.comments[i]]]

\* Array.prototype.reverse
ReverseOf(s) == [i \in DOMAIN s |-> s[Len(s) + 1 - i]]

\* comments.find(c => text starts with "/**" at c.pos): the set holding the
\* first such range, empty when there is none
RECURSIVE FindDocComment(_)
FindDocComment(comments) ==
    IF comments = <<>> THEN {}
    ELSE IF Head(comments).doc THEN {Head(comments)}
    ELSE FindDocComment(Tail(comments))

\* const reverse = symbol.declarations?.some(ts.isSourceFile)
ReverseFlag(declarations) ==
    \E i \in DOMAIN declarations : declarations[i].syntax = "SourceFile"

\* the body of the for loop for the declaration at index i: what it pushes
DiscoveredIn(declarations, kind, i) ==
    LET decl == declarations[i]
        ranges == LeadingCommentRanges(decl)
        comments == IF ReverseFlag(declarations) THEN ReverseOf(ranges) ELSE ranges
        lastDocComment == FindDocComment(comments)
    IN IF decl.syntax \notin WantedKinds[kind] THEN <<>>
       ELSE IF ~HasCommentNode(decl) THEN <<>>
       ELSE IF /\ kind \in ContainsCallSignatures
               /\ ~decl.body
               /\ decl.syntax # "BindingElement"
            THEN <<>>
       ELSE IF lastDocComment = {} THEN <<>>
       ELSE <<[decl |-> i, pos |-> (CHOOSE c \in lastDocComment : TRUE).pos]>>

\* the for loop over symbol.declarations, from the declaration at index i on
RECURSIVE Discovered(_, _, _)
Discovered(declarations, kind, i) ==
    IF i > Len(declarations) THEN <<>>
    ELSE DiscoveredIn(declarations, kind, i) \o Discovered(declarations, kind, i + 1)

\* discoverComment(symbol, kind, logger): what it returns, the empty set for
\* undefined, and whether it warns
DiscoverComment(declarations, kind) ==
    LET discovered == Discovered(declarations, kind, 1)
    IN [discovered |-> discovered,
        result |-> IF discovered = <<>> THEN {} ELSE {discovered[1]},
        warned |-> Len(discovered) > 1]

InitDiscover ==
    /\ WidgetAtRest
    /\ bold = NoCall
    /\ discover \in [pc : {"called"},
                     kind : DOMAIN WantedKinds,
                     declarations : DeclarationLists,
                     out : {[discovered |-> <<>>, result |-> {}, warned |-> FALSE]}]

\* the call returns
DiscoverCommentReturn ==
    /\ discover.pc = "called"
    /\ discover' = [discover EXCEPT
                        !.pc = "returned",
                        !.out = DiscoverComment(discover.declarations, discover.kind)]
    /\ UNCHANGED << widget, bold >>

NextDiscover == DiscoverCommentReturn

DiscoverSpec == InitDiscover /\ [][NextDiscover]_vars

\* another script assigns window.searchData after the index was built from it
SearchDataReplaced(d) ==
    /\ state.index # 0
    /\ d # searchData
    /\ searchData' = d
    /\ UNCHANGED << calls, dom, hidden, phase, scriptState, scriptListeners,
                    searchConfig, state, classList, resultClicked, value, focused,
                    mouseDown, pending, results, location, cycle, last >>

NextReplaced ==
    \/ Next
    \/ \E d \in DatasetIds : SearchDataReplaced(d)

Spec == Init /\ [][Next]_vars

(***************************************************************************)
(* Vocabulary of the properties                                            *)
(***************************************************************************)
\* the field value holds nothing but white space
IsBlank(text) == \A i \in DOMAIN text : text[i] \in WhiteSpace

\* the configuration updateResults was bound to
ConfigInEffect == ConfigOf(searchConfig)

\* the configuration of the dataset held by the search state
LoadedConfig == Datasets[state.data].searchConfig

NumResultsOf(config) ==
    IF config.numResults = {} THEN 10 ELSE CHOOSE n \in config.numResults : TRUE

\* the matches the index engine returns for the last cycle's query
EngineMatches ==
    IF cycle.searchText = <<>> THEN <<>>
    ELSE IndexSearch(Datasets[state.data], cycle.searchText)

RefsOf(items) == [i \in DOMAIN items |-> items[i].ref]

RECURSIVE ProductOfValues(_)
ProductOfValues(entries) ==
    IF entries = <<>> THEN 1 ELSE Head(entries).value * ProductOfValues(Tail(entries))

\* the kind key is, case-insensitively, the label of the row's kind
KeyNamesKind(key, kind) ==
    \E m \in DOMAIN ReflectionKindMembers :
        /\ ReflectionKindMembers[m].value = kind
        /\ ToLowerCase(ReflectionKindMembers[m].name) = ToLowerCase(key)

KeyNamesRowKind(row, entry) == KeyNamesKind(entry.key, row.kind)

KeyInRowCategories(row, entry) ==
    entry.key \in {row.categories[i] : i \in DOMAIN row.categories}

\* the multiplier the boost rules give a row for a query
ExpectedBoost(boosts, row, text) ==
    (IF boosts.exactMatch # {} /\ ToLowerCase(row.name) = ToLowerCase(text)
     THEN CHOOSE m \in boosts.exactMatch : TRUE ELSE 1)
    * ProductOfValues(SelectSeq(boosts.byKind, LAMBDA e : KeyNamesRowKind(row, e)))
    * ProductOfValues(SelectSeq(boosts.byCategory, LAMBDA e : KeyInRowCategories(row, e)))

\* the score the boost rules give the row ref under the configuration in
\* effect
ExpectedScore(ref) ==
    LET data == Datasets[state.data]
        base == data.index[ref + 1]
    IN IF ConfigInEffect.boosts = {} THEN base
       ELSE base * ExpectedBoost(CHOOSE b \in ConfigInEffect.boosts : TRUE,
                                 data.rows[ref + 1], cycle.searchText)

\* the final score the last cycle gave the match of the row ref
FinalScore(ref) ==
    cycle.res[CHOOSE i \in DOMAIN cycle.res : cycle.res[i].ref = ref].score

(***************************************************************************)
(* C1..C5: query, boosting and truncation                                  *)
(***************************************************************************)
\* C1: after a query+render cycle whose field value is empty or only white
\* space the result list holds no result, whatever preceded the cycle and
\* whatever boost configuration is in effect.
C1_BlankQueryYieldsNoResults ==
    (cycle.ran # "none" /\ IsBlank(cycle.value)) => results = <<>>

\* a cycle rendered for a white-space query with boosts in effect
C1_Witness ==
    /\ cycle.ran = "rendered"
    /\ cycle.value = <<" ">>
    /\ ConfigInEffect.boosts # {}
    /\ results = <<>>

\* C2: in every cycle run with a loaded dataset the configuration applied is
\* the searchConfig of that dataset (numResults defaulting to 10), so the
\* number of rendered results is min(numResults, number of matches).
C2_LoadedConfigApplies ==
    cycle.ran = "rendered" =>
        /\ ConfigInEffect = LoadedConfig
        /\ Len(results) = Min(NumResultsOf(LoadedConfig), Len(EngineMatches))

\* C3: with boosts in effect the final score of every match is its base
\* score times the product of the exactMatch multiplier (name equal to the
\* trimmed query, case-insensitively), the byKind multiplier of every key
\* naming the row's kind and the byCategory multiplier of every configured
\* category of the row; unknown kind keys count as 1.
C3_BoostIsProductOfRules ==
    (cycle.ran = "rendered" /\ ConfigInEffect.boosts # {}) =>
        /\ Len(cycle.res) = Len(EngineMatches)
        /\ {cycle.res[i].ref : i \in DOMAIN cycle.res}
               = {EngineMatches[i].ref : i \in DOMAIN EngineMatches}
        /\ \A i \in DOMAIN cycle.res :
               cycle.res[i].score = ExpectedScore(cycle.res[i].ref)

\* C4: with boosts in effect the rendered results are in non-increasing
\* order of final score and are the numResults highest-scoring matches
\* after boosting.
C4_BoostedOrderThenTruncate ==
    (cycle.ran = "rendered" /\ ConfigInEffect.boosts # {}) =>
        LET matched == {EngineMatches[i].ref : i \in DOMAIN EngineMatches}
            shown == {results[i].ref : i \in DOMAIN results}
        IN /\ Len(results) = Min(NumResultsOf(ConfigInEffect), Cardinality(matched))
           /\ Cardinality(shown) = Len(results)
           /\ shown \subseteq matched
           /\ \A i, j \in DOMAIN results :
                  i < j => FinalScore(results[i].ref) >= FinalScore(results[j].ref)
           /\ \A r \in matched \ shown : \A q \in shown : FinalScore(r) <= FinalScore(q)

\* boosting moved row 2 above row 0, and row 0 was cut off by numResults = 2
C4_Witness ==
    /\ cycle.ran = "rendered"
    /\ ConfigInEffect = AllBoosts
    /\ RefsOf(EngineMatches) = <<1, 0, 2>>
    /\ RefsOf(results) = <<1, 2>>

\* C5: for a non-empty trimmed query with a loaded dataset and no boost
\* configuration in effect, the rendered results are the first
\* min(numResults, number of matches) matches of the index engine, in the
\* engine's order, and no score is changed.
C5_EngineOrderWithoutBoosts ==
    (cycle.ran = "rendered" /\ cycle.searchText # <<>> /\ ConfigInEffect.boosts = {}) =>
        /\ cycle.res = EngineMatches
        /\ RefsOf(results)
               = SubSeq(RefsOf(EngineMatches), 1,
                        Min(NumResultsOf(ConfigInEffect), Len(EngineMatches)))

\* the large dataset: more matches than the default numResults
C5_Witness ==
    /\ cycle.ran = "rendered"
    /\ ConfigInEffect.boosts = {}
    /\ Len(EngineMatches) > 10
    /\ Len(results) = 10

(***************************************************************************)
(* C6..C10: keyboard navigation and activation                             *)
(***************************************************************************)
\* positions of the result elements marked current
Marked == {i \in DOMAIN results : "current" \in results[i].classes}

\* the result element at position i is laid out
VisibleAt(i) == results[i].ref \notin hidden

AllVisible == \A i \in DOMAIN results : VisibleAt(i)

\* no rendered row has the token "current" in its classes
NoRowMarked ==
    \A i \in DOMAIN results :
        "current" \notin Datasets[state.data].rows[results[i].ref + 1].classes

\* positions of the laid-out elements strictly beyond position i in direction dir
VisibleBeyond(i, dir) ==
    {j \in DOMAIN results : (j - i) * dir > 0 /\ VisibleAt(j)}

\* C6: in every reachable state at most one element of the result list is
\* marked current.
C6_AtMostOneCurrent == Cardinality(Marked) <= 1

\* C7: an element that a move (ArrowUp/ArrowDown) marks current is laid out
\* at that moment, from the no-current state as from a current element.
C7_MoveMarksOnlyVisible ==
    last.op = "move" => \A i \in Marked : i # last.from => VisibleAt(i)

C10_ActivateAlwaysBlurs == [][KeyEnter => ~focused']_vars

\* C10 as amended: activation removes input focus when a result is current
\* or the list has at least one result; with an empty result list it leaves
\* the focus where it is.
C10_ActivateBlursWhenListNonEmpty ==
    [][KeyEnter => IF results # <<>> THEN ~focused' ELSE focused' = focused]_vars

\* Enter was pressed with results listed and none of them current
C10_Witness ==
    /\ last = [op |-> "activate", dir |-> 0, from |-> 0]
    /\ results # <<>>
    /\ ~focused

\* the widget on the complete page, with every result visible, in an
\* environment that may replace window.searchData
InitReplaced ==
    /\ Init
    /\ hidden = {}
    /\ dom = [searchEl |-> TRUE, script |-> TRUE, field |-> TRUE, results |-> TRUE]

SpecReplaced == InitReplaced /\ [][NextReplaced]_vars

\* the url of the row the list element at position i was rendered from
RowUrlAt(i) == Datasets[state.data].rows[results[i].ref + 1].url

\* C11: Enter navigates to the link of the current result, or of the first
\* result when none is current and the list is non-empty; the target is the
\* base URL followed by the row's url; with an empty list nothing is
\* navigated to.
C11_EnterNavigatesToCurrentOrFirst ==
    [][KeyEnter =>
         IF results = <<>>
         THEN location' = location
         ELSE location' =
                  {state.base \o RowUrlAt(IF CurrentIndex(results) # 0
                                          THEN CurrentIndex(results) ELSE 1)}]_vars

C11_Witness ==
    /\ last.op = "activate"
    /\ last.from > 1
    /\ last.from = CurrentIndex(results)
    /\ location = {state.base \o RowUrlAt(last.from)}
    /\ RowUrlAt(last.from) # RowUrlAt(1)

\* C12: the engine and the dataset are materialised at most once: checkIndex
\* changes nothing when they are loaded or when the global slot is empty,
\* and once loaded state.data and state.index never change, even when the
\* global slot is replaced later.
C12_IndexLoadedAtMostOnce ==
    [][/\ state.index # 0 => state' = state
       /\ (DebounceFire /\ (state.index # 0 \/ searchData = 0))
              => (state' = state /\ classList' = classList)]_vars

\* a cycle ran on the loaded dataset after the slot was given another one
C12_Witness ==
    /\ state.index # 0
    /\ state.data = state.index
    /\ searchData # state.data
    /\ cycle.ran = "rendered"
    /\ cycle.slot = searchData
    /\ results # <<>>

\* C13: whenever the engine is loaded the widget carries "ready" and does
\* not carry "loading"; no later event adds "loading" again or removes
\* "ready".
C13_LoadedMeansReadyNotLoading ==
    state.index # 0 => ("ready" \in classList /\ "loading" \notin classList)

\* the engine was loaded by a cycle on a page without the search script
\* element, so that only checkIndex can have changed the markers
C13_Witness ==
    /\ state.index # 0
    /\ ~dom.script
    /\ "ready" \in classList
    /\ "loading" \notin classList
    /\ cycle.ran = "rendered"

\* C14: a cycle that runs while the global slot is unpopulated has no
\* effect: it renders nothing, leaves the result list, the markers and the
\* state as they were and queues no retry; after the slot is populated,
\* results appear only with a cycle that follows a later input event.
C14_UnpopulatedCycleHasNoEffect ==
    [][/\ (DebounceFire /\ searchData = 0)
              => (/\ UNCHANGED << results, classList, state, location, last >>
                  /\ ~pending')
       /\ (~pending /\ pending') => \E q \in Queries : Input(q)
       /\ (cycle.ran # "rendered" /\ results' # results)
              => (DebounceFire /\ searchData # 0)]_vars

\* a query that has matches was typed and its cycle ran with the slot
\* empty; the slot is populated now, nothing is listed and no cycle is due
C14_Witness ==
    /\ cycle.ran = "skipped"
    /\ cycle.slot = 0
    /\ cycle.value = <<"A", "B">>
    /\ value = cycle.value
    /\ searchData = 1
    /\ state.index = 0
    /\ ~pending
    /\ results = <<>>

\* no input, keyboard, focus or mouse handler has ever acted
NoHandlerActed ==
    /\ value = <<>>
    /\ ~pending
    /\ ~focused
    /\ ~mouseDown
    /\ results = <<>>
    /\ location = {}
    /\ cycle = NoCycle
    /\ last = NoOp
    /\ "has-focus" \notin classList

\* C15 as stated: whenever the input field or the results container is
\* absent at initialisation, initSearch throws and binds no input or
\* keyboard handler, for every combination of missing elements, the
\* enclosing #tsd-search container included.
C15_MissingElementAlwaysThrows ==
    (phase # "start" /\ (~dom.field \/ ~dom.results))
        => (phase = "threw" /\ NoHandlerActed)

\* C15 as amended: with the #tsd-search container present and the input
\* field or the results container absent, initSearch throws and binds no
\* input or keyboard handler; with the #tsd-search container itself absent
\* it returns silently, and binds nothing either.
C15_MissingElementThrowsUnlessNoContainer ==
    (phase # "start" /\ (~dom.field \/ ~dom.results))
        => /\ phase = (IF dom.searchEl THEN "threw" ELSE "absent")
           /\ NoHandlerActed

\* initSearch threw on a page that has the container and the results list
\* and lacks the input field
C15_Witness ==
    /\ phase = "threw"
    /\ dom.searchEl
    /\ ~dom.field
    /\ dom.results
    /\ NoHandlerActed

(***************************************************************************)
(* Reading markup back                                                     *)
(***************************************************************************)
MarkupChars == {"&", "<", ">", "'", "\""}
IntendedTags == {BoldOpen, BoldClose, SpanOpen, SpanClose}

IsPrefix(p, s) == Len(p) <= Len(s) /\ SubSeq(s, 1, Len(p)) = p
DropFirst(s, n) == SubSeq(s, n + 1, Len(s))

TagsAt(h) == {t \in IntendedTags : IsPrefix(t, h)}
\* the character references a browser decodes, by the character they denote
Entity ==
    [c \in MarkupChars |->
        CASE c = "&"  -> <<"&","a","m","p",";">>
          [] c = "<"  -> <<"&","l","t",";">>
          [] c = ">"  -> <<"&","g","t",";">>
          [] c = "'"  -> <<"&","#","0","3","9",";">>
          [] c = "\"" -> <<"&","q","u","o","t",";">>]

EntitiesAt(h) == {c \in MarkupChars : IsPrefix(Entity[c], h)}

\* the markup is made of intended tags, entities and characters that are
\* not markup characters
RECURSIVE WellEscaped(_)
WellEscaped(h) ==
    IF h = <<>> THEN TRUE
    ELSE IF TagsAt(h) # {}
         THEN WellEscaped(DropFirst(h, Len(CHOOSE t \in TagsAt(h) : TRUE)))
    ELSE IF EntitiesAt(h) # {}
         THEN WellEscaped(DropFirst(h, Len(Entity[CHOOSE c \in EntitiesAt(h) : TRUE])))
    ELSE Head(h) \notin MarkupChars /\ WellEscaped(Tail(h))

\* the text a browser shows for the markup: tags removed, entities decoded
RECURSIVE PlainText(_)
PlainText(h) ==
    IF h = <<>> THEN <<>>
    ELSE IF TagsAt(h) # {}
         THEN PlainText(DropFirst(h, Len(CHOOSE t \in TagsAt(h) : TRUE)))
    ELSE IF EntitiesAt(h) # {}
         THEN LET c == CHOOSE c \in EntitiesAt(h) : TRUE
              IN <<c>> \o PlainText(DropFirst(h, Len(Entity[c])))
    ELSE <<Head(h)>> \o PlainText(Tail(h))

\* the text of a row as the list shows it: "parent.name", or the name alone
RowText(row) ==
    IF row.parent = {} \/ row.parent = {<<>>} THEN row.name
    ELSE (CHOOSE x \in row.parent : TRUE) \o <<".">> \o row.name

RowAt(i) == Datasets[state.data].rows[results[i].ref + 1]

\* the rendered rows read the same in every runtime, which is why the widget
\* is run in PageRuntime alone
RenderedAlikeInEveryRuntime ==
    \A i \in DOMAIN results :
        \A runtime \in PageRuntimes : \A held \in [name : Representations,
                                                     parent : Representations] :
            results[i].html
                = NameHtml([RowAt(i) EXCEPT !.held = held], cycle.searchText, runtime)

\* C16: for every rendered result, whatever markup characters the row's
\* name and parent contain and whatever the query is, the markup of the link
\* holds no raw markup character of the row text: it is made of the <b>,
\* </b>, <span class="parent"> and </span> tags, entities and harmless
\* characters, and reads back as the row text; no render calls boldMatches
\* with an empty search string.
C16_RenderedMarkupIsEscaped ==
    /\ \A i \in DOMAIN results :
           /\ WellEscaped(results[i].html)
           /\ PlainText(results[i].html) = RowText(RowAt(i))
    /\ results # <<>> => (cycle.ran = "rendered" /\ cycle.searchText # <<>>)

\* the rows "A'"".a" and "<a>&" are listed for the query "A"
C16_Witness ==
    /\ cycle.searchText = <<"A">>
    /\ \E i \in DOMAIN results :
           /\ results[i].ref = 1
           /\ results[i].html =
                  SpanOpen \o <<"<","b",">","A","<","/","b",">">>
                           \o <<"&","#","0","3","9",";","&","q","u","o","t",";",".">>
                           \o SpanClose \o <<"<","b",">","a","<","/","b",">">>
    /\ \E j \in DOMAIN results :
           /\ results[j].ref = 2
           /\ results[j].html =
                  <<"&","l","t",";","<","b",">","a","<","/","b",">",
                    "&","g","t",";","&","a","m","p",";">>

\* C17: after every query+render cycle run with a loaded dataset the result
\* list holds exactly the results of that cycle's query (the first
\* numResults of them), in order, with no entry left over from or duplicated
\* by an earlier cycle, and no element is marked current.
C17_CycleReplacesList ==
    last.op = "cycle" =>
        /\ cycle.ran = "rendered"
        /\ RefsOf(results)
               = SubSeq(RefsOf(cycle.res), 1,
                        Min(NumResultsOf(ConfigInEffect), Len(cycle.res)))
        /\ \A i, j \in DOMAIN results : results[i].ref = results[j].ref => i = j
        /\ \A i \in DOMAIN results :
               PlainText(results[i].html) = RowText(RowAt(i))
        /\ Marked = {}

\* C18: a blur of the field between a mousedown on the result list and the
\* matching mouseup on the result list does not remove "has-focus", that
\* mouseup removes it, and a blur with no result click in progress removes
\* "has-focus".
C18_BlurSuppressedOnlyDuringResultClick ==
    [][/\ (Blur /\ mouseDown /\ "has-focus" \in classList) => "has-focus" \in classList'
       /\ MouseUpResults => "has-focus" \notin classList'
       /\ (Blur /\ ~mouseDown) => "has-focus" \notin classList']_vars

(***************************************************************************)
(* C19: highlighting                                                       *)
(***************************************************************************)
\* search occurs in text at the 0-based position p, letter case ignored
OccursAt(text, search, p) ==
    /\ p + Len(search) <= Len(text)
    /\ ToLowerCase(SubSeq(text, p + 1, p + Len(search))) = ToLowerCase(search)

\* the 0-based starts of the occurrences a left-to-right scan finds when it
\* resumes after the end of each occurrence
RECURSIVE ScanFrom(_, _, _)
ScanFrom(text, search, p) ==
    IF p + Len(search) > Len(text) THEN <<>>
    ELSE IF OccursAt(text, search, p)
         THEN <<p>> \o ScanFrom(text, search, p + Len(search))
         ELSE ScanFrom(text, search, p + 1)

\* the positions, counted in characters of the plain text, at which the
\* given tag stands in the markup
RECURSIVE TagPositions(_, _, _)
TagPositions(h, tag, pos) ==
    IF h = <<>> THEN <<>>
    ELSE IF IsPrefix(tag, h)
         THEN <<pos>> \o TagPositions(DropFirst(h, Len(tag)), tag, pos)
    ELSE IF TagsAt(h) # {}
         THEN TagPositions(DropFirst(h, Len(CHOOSE t \in TagsAt(h) : TRUE)), tag, pos)
    ELSE IF EntitiesAt(h) # {}
         THEN TagPositions(DropFirst(h, Len(Entity[CHOOSE c \in EntitiesAt(h) : TRUE])),
                           tag, pos + 1)
    ELSE TagPositions(Tail(h), tag, pos + 1)

\* C19: for every text and every non-empty query boldMatches emphasises
\* exactly the non-overlapping case-insensitive occurrences of the query
\* that a left-to-right scan finds when it resumes after the end of each
\* match; removing the emphasis tags and un-escaping the output gives the
\* text back, and boldMatches of that text and the same query gives the same
\* output.
C19_BoldMatchesEmphasisesScanOccurrences ==
    (bold.pc = "returned" /\ bold.search # <<>>) =>
        LET starts == ScanFrom(bold.text, bold.search, 0)
        IN /\ WellEscaped(bold.out)
           /\ PlainText(bold.out) = bold.text
           /\ TagPositions(bold.out, BoldOpen, 0) = starts
           /\ TagPositions(bold.out, BoldClose, 0)
                  = [i \in DOMAIN starts |-> starts[i] + Len(bold.search)]
           /\ BoldMatches(PlainText(bold.out), bold.search, bold.runtime) = bold.out

(***************************************************************************)
(* C20: the doc comment discoverComment chooses                            *)
(***************************************************************************)
\* the places of the "/**" ranges among the leading comment ranges of decl
DocPlaces(decl) == {i \in DOMAIN decl.comments : decl.comments[i]}

\* C20: for a symbol that has a source-file declaration the doc comment
\* chosen for a declaration is the first "/**" comment among its leading
\* comment ranges in file order; for a symbol with no source-file
\* declaration it is the last one.
C20_FirstForModulesLastOtherwise ==
    discover.pc = "returned" =>
        \A k \in DOMAIN discover.out.discovered :
            LET found == discover.out.discovered[k]
                places == DocPlaces(discover.declarations[found.decl])
            IN /\ found.pos \in places
               /\ IF \E i \in DOMAIN discover.declarations :
                         discover.declarations[i].syntax = "SourceFile"
                  THEN \A p \in places : found.pos <= p
                  ELSE \A p \in places : found.pos >= p

\* C21: in every reachable state, under any interleaving of focus, blur,
\* mousedown and mouseup events, a mousedown on the result list released
\* outside it included, the widget does not carry "has-focus" when the field
\* has no focus and no button is held down on the result list, and the
\* click-in-progress flag is not set once the click has ended.
C21_NoFocusMarkerWithoutFocusOrClick ==
    /\ (~focused /\ ~mouseDown) => "has-focus" \notin classList
    /\ ~mouseDown => ~resultClicked

====
